---- MODULE Spec2Model ----
(***************************************************************************)
(* A model of ddpm_tf.py: the noise schedules, extract / q_sample, the     *)
(* image transform pair, the kernel initialiser, TimeEmbedding and the     *)
(* graph construction done by build_model.                                 *)
(*                                                                         *)
(* Tensors are modelled by what the claims read of them: build_model works *)
(* on symbolic Keras tensors, so a tensor there is its shape (spatial size *)
(* and channel count); extract and q_sample work on small integer tensors. *)
(* Python indices are kept 0-based; Seq[i + 1] reads element i.            *)
(***************************************************************************)
EXTENDS Integers, Sequences, FiniteSets, TLC

(***************************************************************************)
(* Bounds of the model.                                                    *)
(***************************************************************************)
MaxLevels == 3
MaxResBlocks == 2
MaxImgSize == 4
MaxTimesteps == 16
MaxSteps == 2
MaxTableLen == 3
MaxTableVal == 2
MaxBatch == 2
MaxRank == 3
MaxTaps == 2
WeightSteps == 2
MaxDim == 10
MaxTime == 2

(***************************************************************************)
(* Program constants.                                                      *)
(***************************************************************************)
first_conv_channels == 64
norm_groups == 8
HeadChannels == 3

WidthVals == {4, 64, 128}
ImgChannelVals == {1, 3}

VARIABLES
    \* ---- build_model ----
    cfg,        \* the arguments of the call
    pc,         \* position in build_model
    i,          \* level index of the running for loop (0-based)
    j,          \* inner loop counter
    x,          \* shape of the current tensor x
    skips,      \* the skips list, a sequence of shapes
    pushes,     \* number of tensors put on skips so far
    pops,       \* number of skips.pop() calls so far
    downs,      \* number of DownSample applications so far
    ups,        \* number of UpSample applications so far
    err,        \* the exception that ended construction, or "none"
    out,        \* shape of the returned model's output, or NoShape
    \* ---- the schedule functions ----
    sched,      \* the last schedule call: its function, argument and outcome
    \* ---- extract and q_sample ----
    tables,     \* the module-level schedule tables
    rng,        \* the process-wide random-number state
    last,       \* the last call of extract or q_sample with its result
    saved,      \* an earlier q_sample call with explicit noise, remembered
    \* ---- transform and reverse_transform ----
    img,        \* the image being carried through the two transforms
    \* ---- kernel_init and the end block's convolution ----
    conv,       \* the convolution layer being built and applied
    \* ---- TimeEmbedding ----
    temb        \* the TimeEmbedding layer being built and called

buildVars == <<cfg, pc, i, j, x, skips, pushes, pops, downs, ups, err, out>>
diffVars == <<tables, rng, last, saved>>
notBuildVars == <<sched, diffVars, img, conv, temb>>
notSchedVars == <<buildVars, diffVars, img, conv, temb>>
notDiffVars == <<buildVars, sched, img, conv, temb>>
notImgVars == <<buildVars, sched, diffVars, conv, temb>>
notConvVars == <<buildVars, sched, diffVars, img, temb>>
notTembVars == <<buildVars, sched, diffVars, img, conv>>
vars == <<buildVars, sched, diffVars, img, conv, temb>>

----------------------------------------------------------------------------
(***************************************************************************)
(* Helpers.                                                                *)
(***************************************************************************)
SeqsUpTo(S, n) == UNION {[1..k -> S] : k \in 0..n}

CeilDiv(a, b) == (a + b - 1) \div b

NoShape == [size |-> 0, ch |-> 0]
Shape(size, ch) == [size |-> size, ch |-> ch]

----------------------------------------------------------------------------
(***************************************************************************)
(* Layers, as functions on shapes.                                         *)
(***************************************************************************)

\* layers.Conv2D(width, ..., strides, padding="same"): spatial size
\* ceil(size / strides), channel count width.
Conv2D(s, width, strides) == Shape(CeilDiv(s.size, strides), width)

\* layers.GroupNormalization(groups) can be built on s only when the channel
\* count is a positive multiple of groups.
GroupNormOK(s, groups) == s.ch >= groups /\ s.ch % groups = 0

\* ResidualBlock(width, groups)([x, t]): normalises x, convolves to width,
\* normalises again, convolves, adds the residual (x itself or its 1x1
\* projection to width).
ResidualBlockOK(s, width, groups) ==
    GroupNormOK(s, groups) /\ GroupNormOK(Shape(s.size, width), groups)
ResidualBlock(s, width) == Shape(s.size, width)

\* AttentionBlock(units, groups)(x): normalises, returns inputs + proj.
AttentionBlock(s, units) == Shape(s.size, units)

\* DownSample(width): Conv2D with strides=2.
DownSample(s, width) == Conv2D(s, width, 2)

\* UpSample(width): UpSampling2D(size=2) followed by a Conv2D.
UpSample(s, width) == Conv2D(Shape(2 * s.size, s.ch), width, 1)

\* layers.Concatenate(axis=-1)([a, b]) needs equal spatial sizes.
ConcatenateOK(a, b) == a.size = b.size
Concatenate(a, b) == Shape(a.size, a.ch + b.ch)

----------------------------------------------------------------------------
(***************************************************************************)
(* build_model.                                                            *)
(***************************************************************************)
NumLevels == Len(cfg.widths)
LastWidth == cfg.widths[NumLevels]                \* widths[-1]
WidthAt(k) == cfg.widths[k + 1]                   \* widths[k]
AttnInRange(k) == k < Len(cfg.has_attention)
AttnAt(k) == cfg.has_attention[k + 1]             \* has_attention[k]

Configs ==
    [img_size : 1..MaxImgSize,
     img_channels : ImgChannelVals,
     widths : SeqsUpTo(WidthVals, MaxLevels),
     has_attention : SeqsUpTo(BOOLEAN, MaxLevels + 1),
     num_res_blocks : 0..MaxResBlocks]

Raise(e) ==
    /\ pc' = "error"
    /\ err' = e
    /\ UNCHANGED <<cfg, i, j, x, skips, pushes, pops, downs, ups, out>>

\* The parts of the state a specification does not exercise stay as they are.
NoCall == [fn |-> "none"]
IdleSched == sched = NoCall
IdleDiff == tables = <<>> /\ rng = 0 /\ last = NoCall /\ saved = NoCall
IdleImg == img = [stage |-> "none"]
IdleConv == conv = [stage |-> "none"]
IdleTemb == temb = [stage |-> "none"]
IdleBuild ==
    /\ cfg = [img_size |-> 1, img_channels |-> 1, widths |-> <<>>,
              has_attention |-> <<>>, num_res_blocks |-> 0]
    /\ pc = "idle"
    /\ i = 0 /\ j = 0 /\ x = NoShape /\ skips = <<>>
    /\ pushes = 0 /\ pops = 0 /\ downs = 0 /\ ups = 0
    /\ err = "none" /\ out = NoShape

InitBuild ==
    /\ cfg \in Configs
    /\ pc = "stem"
    /\ i = 0
    /\ j = 0
    /\ x = NoShape
    /\ skips = <<>>
    /\ pushes = 0
    /\ pops = 0
    /\ downs = 0
    /\ ups = 0
    /\ err = "none"
    /\ out = NoShape
    /\ IdleSched
    /\ IdleDiff
    /\ IdleImg
    /\ IdleConv
    /\ IdleTemb

\* Lines 320-335: the inputs, the first convolution, skips = [x].
Stem ==
    /\ pc = "stem"
    /\ UNCHANGED notBuildVars
    /\ LET x1 == Conv2D(Shape(cfg.img_size, cfg.img_channels),
                        first_conv_channels, 1)
       IN /\ x' = x1
          /\ skips' = <<x1>>
          /\ pushes' = 1
    /\ pc' = IF NumLevels = 0 THEN "middle" ELSE "enc"
    /\ i' = 0
    /\ j' = 0
    /\ UNCHANGED <<cfg, pops, downs, ups, err, out>>

\* Lines 339-345: one iteration of the encoder's inner loop.
EncResBlock ==
    /\ pc = "enc"
    /\ UNCHANGED notBuildVars
    /\ j < cfg.num_res_blocks
    /\ IF ~ResidualBlockOK(x, WidthAt(i), norm_groups)
       THEN Raise("ValueError")
       ELSE IF ~AttnInRange(i)
       THEN Raise("IndexError: list index out of range")
       ELSE LET x1 == ResidualBlock(x, WidthAt(i))
                x2 == IF AttnAt(i) THEN AttentionBlock(x1, WidthAt(i)) ELSE x1
            IN /\ x' = x2
               /\ skips' = Append(skips, x2)
               /\ pushes' = pushes + 1
               /\ j' = j + 1
               /\ UNCHANGED <<cfg, pc, i, pops, downs, ups, err, out>>

\* The DownSample test of line 347.
DownSampleAfter(k) == WidthAt(k) # LastWidth

\* Lines 347-349 and the step of the outer loop of line 338.
EncLevelEnd ==
    /\ pc = "enc"
    /\ UNCHANGED notBuildVars
    /\ j >= cfg.num_res_blocks
    /\ IF DownSampleAfter(i)
       THEN LET x1 == DownSample(x, WidthAt(i))
            IN /\ x' = x1
               /\ skips' = Append(skips, x1)
               /\ pushes' = pushes + 1
               /\ downs' = downs + 1
       ELSE UNCHANGED <<x, skips, pushes, downs>>
    /\ i' = i + 1
    /\ j' = 0
    /\ pc' = IF i + 1 < NumLevels THEN "enc" ELSE "middle"
    /\ UNCHANGED <<cfg, pops, ups, err, out>>

\* Lines 352-358.
Middle ==
    /\ pc = "middle"
    /\ UNCHANGED notBuildVars
    /\ IF NumLevels = 0
       THEN Raise("IndexError: list index out of range")
       ELSE IF ~ResidualBlockOK(x, LastWidth, norm_groups)
       THEN Raise("ValueError")
       ELSE /\ x' = ResidualBlock(
                        AttentionBlock(ResidualBlock(x, LastWidth), LastWidth),
                        LastWidth)
            /\ pc' = "dec"
            /\ i' = NumLevels - 1
            /\ j' = 0
            /\ UNCHANGED <<cfg, skips, pushes, pops, downs, ups, err, out>>

\* Lines 362-368: one iteration of the decoder's inner loop.
DecResBlock ==
    /\ pc = "dec"
    /\ UNCHANGED notBuildVars
    /\ j < cfg.num_res_blocks + 1
    /\ IF skips = <<>>
       THEN Raise("IndexError: pop from empty list")
       ELSE LET s == skips[Len(skips)]
                rest == SubSeq(skips, 1, Len(skips) - 1)
            IN IF ~ConcatenateOK(x, s)
               THEN Raise("ValueError")
               ELSE IF ~ResidualBlockOK(Concatenate(x, s), WidthAt(i), norm_groups)
               THEN Raise("ValueError")
               ELSE IF ~AttnInRange(i)
               THEN Raise("IndexError: list index out of range")
               ELSE LET x1 == ResidualBlock(Concatenate(x, s), WidthAt(i))
                    IN /\ x' = IF AttnAt(i)
                               THEN AttentionBlock(x1, WidthAt(i))
                               ELSE x1
                       /\ skips' = rest
                       /\ pops' = pops + 1
                       /\ j' = j + 1
                       /\ UNCHANGED <<cfg, pc, i, pushes, downs, ups, err, out>>

\* The UpSample test of line 370.
UpSampleAfter(k) == k # 0

\* Lines 370-371 and the step of the outer loop of line 361.
DecLevelEnd ==
    /\ pc = "dec"
    /\ UNCHANGED notBuildVars
    /\ j >= cfg.num_res_blocks + 1
    /\ IF UpSampleAfter(i)
       THEN /\ x' = UpSample(x, WidthAt(i))
            /\ ups' = ups + 1
       ELSE UNCHANGED <<x, ups>>
    /\ i' = i - 1
    /\ j' = 0
    /\ pc' = IF i > 0 THEN "dec" ELSE "head"
    /\ UNCHANGED <<cfg, skips, pushes, pops, downs, err, out>>

\* Lines 374-377: the end block and the returned model.
EndBlock ==
    /\ pc = "head"
    /\ UNCHANGED notBuildVars
    /\ IF ~GroupNormOK(x, norm_groups)
       THEN Raise("ValueError")
       ELSE /\ out' = Conv2D(x, HeadChannels, 1)
            /\ pc' = "done"
            /\ UNCHANGED <<cfg, i, j, x, skips, pushes, pops, downs, ups, err>>

NextBuild ==
    \/ Stem
    \/ EncResBlock
    \/ EncLevelEnd
    \/ Middle
    \/ DecResBlock
    \/ DecLevelEnd
    \/ EndBlock

SpecBuild == InitBuild /\ [][NextBuild]_vars

----------------------------------------------------------------------------
(***************************************************************************)
(* Claims about build_model.                                               *)
(***************************************************************************)

\* C1: for every configuration with a non-empty widths list the tensors put
\* on skips are exactly the tensors popped: no skips.pop() is made on an
\* empty list, and once the decoder has finished the list is empty and the
\* number of pushes equals the number of pops.
C1_SkipsBalanced ==
    NumLevels >= 1 =>
        /\ err # "IndexError: pop from empty list"
        /\ pc \in {"head", "done"} => (skips = <<>> /\ pushes = pops)

\* C2: every configuration build_model accepts yields a model whose output
\* has the height, width and channel count of the image input.
C2_OutputShapeIsInputShape ==
    pc = "done" => out = Shape(cfg.img_size, cfg.img_channels)

\* C3: build_model returns no model when len(has_attention) differs from
\* len(widths), whether has_attention is the shorter or the longer list.
C3_MismatchedLengthsFail ==
    Len(cfg.has_attention) # Len(cfg.widths) => pc # "done"

\* C9: when the encoder pass has finished it has applied a DownSample after
\* every level but the last, len(widths) - 1 in all, which is the number of
\* UpSample applications of a finished decoder pass.
C9_DownSampleAllButLast ==
    /\ (pc = "middle" /\ NumLevels >= 1) => downs = NumLevels - 1
    /\ pc \in {"head", "done"} => (ups = NumLevels - 1 /\ downs = ups)

----------------------------------------------------------------------------
(***************************************************************************)
(* The schedule functions.  Real numbers are fixed-point integers in units *)
(* of 1 / Scale; the values no arithmetic here can compute (a sigmoid, a   *)
(* cosine) are kept as terms naming their argument.  A TensorFlow result   *)
(* is [ok |-> TRUE, val |-> the 1-D tensor] or [ok |-> FALSE] when the     *)
(* call raises.                                                            *)
(***************************************************************************)
Scale == 100 * 100

beta_start == 1           \* 0.0001
beta_end == 200           \* 0.02

Max(a, b) == IF a >= b THEN a ELSE b
Min(a, b) == IF a <= b THEN a ELSE b

RECURSIVE ISqrtIn(_, _, _)
ISqrtIn(n, lo, hi) ==
    IF lo >= hi THEN lo
    ELSE LET mid == (lo + hi + 1) \div 2
         IN IF mid * mid <= n THEN ISqrtIn(n, mid, hi)
                              ELSE ISqrtIn(n, lo, mid - 1)

\* tf.sqrt on a fixed-point value v / Scale between 0 and 1.
Sqrt(v) == ISqrtIn(v * Scale, 0, Scale)

Raised == [ok |-> FALSE]
Tensor(v) == [ok |-> TRUE, val |-> v]

\* tf.linspace(start, stop, num): num evenly spaced values, the last one
\* stop; an empty tensor for num = 0; an error (raised by the range inside
\* it) for num < 0.
linspace(start, stop, num) ==
    IF num < 0 THEN Raised
    ELSE Tensor([k \in 1..num |->
                    IF k = num /\ num > 1 THEN stop
                    ELSE start + ((stop - start) * (k - 1)) \div Max(num - 1, 1)])

\* Lines 45-48.
linear_beta_schedule(timesteps) == linspace(beta_start, beta_end, timesteps)

\* Lines 50-53.
quadratic_beta_schedule(timesteps) ==
    LET r == linspace(Sqrt(beta_start), Sqrt(beta_end), timesteps)
    IN IF ~r.ok THEN Raised
       ELSE Tensor([k \in DOMAIN r.val |-> (r.val[k] * r.val[k]) \div Scale])

\* Lines 55-59: sigmoid(b) * (beta_end - beta_start) + beta_start for each
\* point b of linspace(-6, 6, timesteps).
sigmoid_beta_schedule(timesteps) ==
    LET r == linspace(-6 * Scale, 6 * Scale, timesteps)
    IN IF ~r.ok THEN Raised
       ELSE Tensor([k \in DOMAIN r.val |-> [sigmoid_of |-> r.val[k]]])

\* Lines 34-43: x has timesteps + 1 points, alphas_cumprod[0] needs one of
\* them, betas has one element less than alphas_cumprod.  Dividing by
\* timesteps = 0 gives nan values, not an error.
cosine_beta_schedule(timesteps) ==
    LET steps == timesteps + 1
        r == linspace(0, timesteps * Scale, steps)
    IN IF ~r.ok THEN Raised
       ELSE IF Len(r.val) = 0 THEN Raised
       ELSE Tensor([k \in 1..(Len(r.val) - 1) |->
                       [clipped_beta_of |-> <<r.val[k], r.val[k + 1]>>,
                        nan |-> timesteps = 0]])

ScheduleKinds == {"linear", "quadratic", "sigmoid", "cosine"}

InitSched ==
    /\ IdleBuild
    /\ IdleDiff
    /\ IdleImg
    /\ IdleConv
    /\ IdleTemb
    /\ sched = NoCall

CallLinear ==
    /\ \E T \in -MaxTimesteps..MaxTimesteps :
         sched' = [fn |-> "linear", timesteps |-> T, ret |-> linear_beta_schedule(T)]
    /\ UNCHANGED notSchedVars

CallQuadratic ==
    /\ \E T \in -MaxTimesteps..MaxTimesteps :
         sched' = [fn |-> "quadratic", timesteps |-> T,
                   ret |-> quadratic_beta_schedule(T)]
    /\ UNCHANGED notSchedVars

CallSigmoid ==
    /\ \E T \in -MaxTimesteps..MaxTimesteps :
         sched' = [fn |-> "sigmoid", timesteps |-> T, ret |-> sigmoid_beta_schedule(T)]
    /\ UNCHANGED notSchedVars

CallCosine ==
    /\ \E T \in -MaxTimesteps..MaxTimesteps :
         sched' = [fn |-> "cosine", timesteps |-> T, ret |-> cosine_beta_schedule(T)]
    /\ UNCHANGED notSchedVars

NextSched ==
    \/ CallLinear
    \/ CallQuadratic
    \/ CallSigmoid
    \/ CallCosine

SpecSched == InitSched /\ [][NextSched]_vars

\* C7: a schedule function called with a timestep count T <= 0 raises; it
\* returns no beta sequence, empty or otherwise.
C7_NonPositiveTimestepsFail ==
    (sched.fn \in ScheduleKinds /\ sched.timesteps <= 0) => ~sched.ret.ok

----------------------------------------------------------------------------
(***************************************************************************)
(* The schedule tables, extract and q_sample.  A tensor is                 *)
(* [shape |-> its shape, data |-> its elements in row-major order].        *)
(***************************************************************************)
RECURSIVE Product(_)
Product(s) == IF s = <<>> THEN 1 ELSE s[1] * Product(Tail(s))

\* (1,) * n: the empty tuple for n <= 0.
Ones(n) == [k \in 1..n |-> 1]

\* tf.math.cumprod(a, axis=0).
RECURSIVE cumprod(_)
cumprod(a) ==
    IF Len(a) <= 1 THEN a
    ELSE LET p == cumprod(SubSeq(a, 1, Len(a) - 1))
         IN Append(p, (p[Len(p)] * a[Len(a)]) \div Scale)

\* Lines 63-73: the tables derived from the linear schedule.
Tables(timesteps) ==
    LET betas == linear_beta_schedule(timesteps).val
        alphas == [k \in DOMAIN betas |-> Scale - betas[k]]
        alphas_cumprod == cumprod(alphas)
    IN [betas |-> betas,
        alphas_cumprod |-> alphas_cumprod,
        sqrt_alphas_cumprod |->
            [k \in DOMAIN betas |-> Sqrt(alphas_cumprod[k])],
        sqrt_one_minus_alphas_cumprod |->
            [k \in DOMAIN betas |-> Sqrt(Scale - alphas_cumprod[k])]]

\* gather reading the element after the one asked for.
gather_NextElement(a, t) == [k \in DOMAIN t |-> a[((t[k] + 1) % Len(a)) + 1]]

\* tf.gather(a, t, axis=-1) for a 1-D a and a 1-D t of indices in range.
gather(a, t) == [k \in DOMAIN t |-> a[t[k] + 1]]

\* tf.reshape(data, shape): the element count must be that of the shape.
reshape(data, shape) ==
    IF Product(shape) = Len(data)
    THEN [ok |-> TRUE, shape |-> shape, data |-> data]
    ELSE [ok |-> FALSE]

\* Lines 78-81.
extract(a, t, x_shape) ==
    LET batch_size == Len(t)
        gathered == gather(a, t)
    IN reshape(gathered, <<batch_size>> \o Ones(Len(x_shape) - 1))

\* tf.random.normal(shape) for a shape [B, P]: values read off the
\* process-wide state, which the draw advances.
RngStates == 0..2
NoiseVals == <<-1, 0, 1>>
random_normal(state, shape) ==
    [b \in 1..shape[1] |->
        [p \in 1..shape[2] |-> NoiseVals[((state + b + p) % 3) + 1]]]
rng_after_draw(state) == (state + 1) % Cardinality(RngStates)

NoneArg == [given |-> FALSE]
Given(v) == [given |-> TRUE, val |-> v]

ShapeOf(xs) == <<Len(xs), Len(xs[1])>>

\* q_sample drawing its noise whether or not one was supplied.
NoiseUsed_AlwaysDrawn(x_start, noise, state) ==
    random_normal(state, ShapeOf(x_start))

\* Lines 114-115: the noise q_sample works with.
NoiseUsed(x_start, noise, state) ==
    IF ~noise.given THEN random_normal(state, ShapeOf(x_start)) ELSE noise.val

\* Lines 114-115: the random-number state q_sample leaves behind.
RngUsed(noise, state) ==
    IF ~noise.given THEN rng_after_draw(state) ELSE state

\* Lines 117-122: the coefficients are [B, 1] tensors, broadcast over the
\* pixels of each sample.
q_sample(x_start, t, noise, state) ==
    LET n == NoiseUsed(x_start, noise, state)
        sqrt_alphas_cumprod_t ==
            extract(tables.sqrt_alphas_cumprod, t, ShapeOf(x_start))
        sqrt_one_minus_alphas_cumprod_t ==
            extract(tables.sqrt_one_minus_alphas_cumprod, t, ShapeOf(x_start))
    IN [b \in DOMAIN x_start |->
           [p \in DOMAIN x_start[b] |->
               sqrt_alphas_cumprod_t.data[b] * x_start[b][p]
               + sqrt_one_minus_alphas_cumprod_t.data[b] * n[b][p]]]

BatchSizes == {1, 2}

\* The x_start and noise tensors the calls are made with: one and two
\* samples of one pixel each.
XStarts == {<< <<1>> >>, << <<-1>> >>, << <<1>>, <<-1>> >>}
Noises == {<< <<1>> >>, << <<-1>> >>, << <<1>>, <<-1>> >>, << <<-1>>, <<1>> >>}
Steps(timesteps, b) == [1..b -> 0..(timesteps - 1)]

InitDiff ==
    /\ IdleBuild
    /\ IdleSched
    /\ IdleImg
    /\ IdleConv
    /\ IdleTemb
    /\ \E T \in 1..MaxSteps : tables = Tables(T)
    /\ rng \in RngStates
    /\ last = NoCall
    /\ saved = NoCall

\* A call of q_sample with the noise argument supplied.  The first such
\* call is remembered in saved, to be compared with the later ones.
QSampleWithNoise ==
    /\ \E x_start \in XStarts :
       \E t \in Steps(Len(tables.betas), Len(x_start)) :
       \E noise \in {n \in Noises : ShapeOf(n) = ShapeOf(x_start)} :
         LET call == [fn |-> "q_sample", x_start |-> x_start, t |-> t,
                      noise |-> Given(noise),
                      ret |-> q_sample(x_start, t, Given(noise), rng)]
         IN /\ last' = call
            /\ rng' = RngUsed(Given(noise), rng)
            /\ saved' = IF saved = NoCall THEN call ELSE saved
    /\ UNCHANGED <<tables, notDiffVars>>

\* A call of q_sample with the noise argument omitted.
QSampleDefaultNoise ==
    /\ \E x_start \in XStarts :
       \E t \in Steps(Len(tables.betas), Len(x_start)) :
         /\ last' = [fn |-> "q_sample", x_start |-> x_start, t |-> t,
                     noise |-> NoneArg,
                     ret |-> q_sample(x_start, t, NoneArg, rng)]
         /\ rng' = RngUsed(NoneArg, rng)
    /\ UNCHANGED <<tables, saved, notDiffVars>>

\* A call of extract on one of the tables.
ExtractFromTable ==
    /\ \E name \in {"betas", "sqrt_alphas_cumprod"} :
       \E b \in BatchSizes :
       \E t \in Steps(Len(tables.betas), b) :
         last' = [fn |-> "extract", a |-> tables[name], t |-> t,
                  x_shape |-> <<b, 1>>,
                  ret |-> extract(tables[name], t, <<b, 1>>)]
    /\ UNCHANGED <<tables, rng, saved, notDiffVars>>

NextDiff ==
    \/ QSampleWithNoise
    \/ QSampleDefaultNoise
    \/ ExtractFromTable

SpecDiff == InitDiff /\ [][NextDiff]_vars

\* C8: q_sample uses the random-number state exactly when its noise
\* argument is omitted: a call with explicit noise returns what the
\* remembered call with the same x_start, t and noise returned, whatever the
\* state is now and whatever was called in between; a step changes the
\* random-number state exactly when it is a call without noise; and no call
\* of q_sample or extract changes a schedule table.
C8_QSamplePure ==
    /\ [](  (/\ last.fn = "q_sample"
             /\ last.noise.given
             /\ saved # NoCall
             /\ last.x_start = saved.x_start
             /\ last.t = saved.t
             /\ last.noise = saved.noise)
          => last.ret = saved.ret)
    /\ [][(rng' # rng) <=> (last'.fn = "q_sample" /\ ~last'.noise.given)]_vars
    /\ [][tables' = tables]_vars

\* A call with explicit noise repeats the remembered call after the
\* random-number state has moved on.
C8_Witness ==
    /\ last.fn = "q_sample"
    /\ last.noise.given
    /\ saved # NoCall
    /\ last.x_start = saved.x_start
    /\ last.t = saved.t
    /\ last.noise = saved.noise
    /\ Len(last.x_start) = 2
    /\ last.t[1] # last.t[2]
    /\ rng = 2

----------------------------------------------------------------------------
(***************************************************************************)
(* extract on arbitrary tables.                                            *)
(***************************************************************************)
TableVals == 0..MaxTableVal

InitExtract ==
    /\ IdleBuild
    /\ IdleSched
    /\ IdleDiff
    /\ IdleImg
    /\ IdleConv
    /\ IdleTemb

\* The call extract(a, t, x_shape) of a run, with a 1-D table a, a batch t of
\* indices in range and a target shape of rank r whose first dimension is
\* the batch.
CallExtract ==
    /\ last = NoCall
    /\ \E n \in 1..MaxTableLen :
       \E a \in [1..n -> TableVals] :
       \E b \in 0..MaxBatch :
       \E t \in [1..b -> 0..(n - 1)] :
       \E r \in 0..MaxRank :
         LET x_shape == [k \in 1..r |-> IF k = 1 THEN b ELSE 2]
         IN last' = [fn |-> "extract", a |-> a, t |-> t, x_shape |-> x_shape,
                     ret |-> extract(a, t, x_shape)]
    /\ UNCHANGED <<tables, rng, saved, notDiffVars>>

NextExtract == CallExtract

SpecExtract == InitExtract /\ [][NextExtract]_vars

\* C4: for a 1-D table a, a batch t of B indices in range and a target shape
\* of rank r >= 1, extract returns a tensor of shape [B] followed by r - 1
\* dimensions of size 1 whose i-th element is a[t[i]].
C4_ExtractGathers ==
    (last.fn = "extract" /\ Len(last.x_shape) >= 1) =>
        /\ last.ret.ok
        /\ Len(last.ret.shape) = Len(last.x_shape)
        /\ last.ret.shape[1] = Len(last.t)
        /\ \A k \in 2..Len(last.x_shape) : last.ret.shape[k] = 1
        /\ Len(last.ret.data) = Len(last.t)
        /\ \A k \in 1..Len(last.t) : last.ret.data[k] = last.a[last.t[k] + 1]

\* A call with a batch of two different indices into a table of different
\* values and a target shape of rank 3.
C4_Witness ==
    /\ last.fn = "extract"
    /\ Len(last.x_shape) = 3
    /\ Len(last.t) = 2
    /\ last.t[1] # last.t[2]
    /\ last.a[last.t[1] + 1] # last.a[last.t[2] + 1]
    /\ last.ret.ok

----------------------------------------------------------------------------
(***************************************************************************)
(* transform and reverse_transform.  An image tensor is                    *)
(* [shape |-> <<d1, d2, d3>>, at |-> its values], at[a + 1][b + 1][c + 1]  *)
(* being the value at the 0-based index (a, b, c).  The batch axis of size *)
(* 1 that expand_dims adds and squeeze removes changes no value and is     *)
(* left out of the indices.  Values are integers over a denominator fixed  *)
(* by the stage: 1 for pixels, Den after the bilinear resize, 255 * Den in *)
(* the model's [-1, 1] range.                                              *)
(***************************************************************************)
image_size == 64
Den == (2 * image_size) * (2 * image_size)

Tensor3(shape, f(_, _, _)) ==
    [shape |-> shape,
     at |-> [a \in 1..shape[1] |->
                [b \in 1..shape[2] |->
                    [c \in 1..shape[3] |-> f(a - 1, b - 1, c - 1)]]]]
At(t, a, b, c) == t.at[a + 1][b + 1][c + 1]

\* The source position of output index k along an axis of n input and
\* image_size output points, in units of 1 / (2 * image_size): bilinear
\* resizing with half-pixel centres.
Src2(k, n) == (2 * k + 1) * n - image_size
Lower(k, n) == Max(Src2(k, n) \div (2 * image_size), 0)
Lerp(k, n) == Src2(k, n) % (2 * image_size)
Upper(k, n) ==
    Min(IF Lerp(k, n) = 0 THEN Src2(k, n) \div (2 * image_size)
                          ELSE Src2(k, n) \div (2 * image_size) + 1,
        n - 1)

\* layers.Resizing(image_size, image_size, crop_to_aspect_ratio=True): the
\* centred crop of the target's aspect ratio, then the bilinear resize.
Resizing(t) ==
    LET height == t.shape[1]
        width == t.shape[2]
        crop_height == Min(height, (width * image_size) \div image_size)
        crop_width == Min(width, (height * image_size) \div image_size)
        hstart == (height - crop_height) \div 2
        wstart == (width - crop_width) \div 2
        px(h, w, c) == At(t, hstart + h, wstart + w, c)
        two == 2 * image_size
        value(h, w, c) ==
            LET ly == Lerp(h, crop_height)
                lx == Lerp(w, crop_width)
                top == Lower(h, crop_height)
                bottom == Upper(h, crop_height)
                left == Lower(w, crop_width)
                right == Upper(w, crop_width)
            IN (two - ly) * (two - lx) * px(top, left, c)
               + (two - ly) * lx * px(top, right, c)
               + ly * (two - lx) * px(bottom, left, c)
               + ly * lx * px(bottom, right, c)
    IN Tensor3(<<image_size, image_size, t.shape[3]>>, value)

\* layers.Permute((3, 1, 2)): [H, W, C] to [C, H, W].
PermuteToCHW(t) ==
    LET f(c, h, w) == At(t, h, w, c)
    IN Tensor3(<<t.shape[3], t.shape[1], t.shape[2]>>, f)

\* layers.Permute((2, 3, 1)): [C, H, W] to [H, W, C].
PermuteToHWC(t) ==
    LET f(h, w, c) == At(t, c, h, w)
    IN Tensor3(<<t.shape[2], t.shape[3], t.shape[1]>>, f)

\* (x / 255.) * 2 - 1, from units of 1 / Den to units of 1 / (255 * Den).
Normalise(t) ==
    LET f(a, b, c) == 2 * At(t, a, b, c) - 255 * Den
    IN Tensor3(t.shape, f)

\* (x + 1) * 255 / 2, from units of 1 / (255 * Den) to units of 1 / Den.
Denormalise(t) ==
    LET f(a, b, c) == (At(t, a, b, c) + 255 * Den) \div 2
    IN Tensor3(t.shape, f)

\* tf.cast(x, tf.uint8) truncates.  The float arithmetic before it may land
\* a whole value v a rounding error below v, and then v - 1 is the result.
FloatRoundings == {"exact", "below"}
CastUint8(t, rounding) ==
    LET f(a, b, c) ==
            LET v == At(t, a, b, c)
            IN IF rounding = "below" /\ v % Den = 0 /\ v > 0
               THEN v \div Den - 1
               ELSE v \div Den
    IN Tensor3(t.shape, f)

Values(t) ==
    UNION {UNION {{t.at[a][b][c] : c \in 1..t.shape[3]} : b \in 1..t.shape[2]}
           : a \in 1..t.shape[1]}
MinOf(S) == CHOOSE m \in S : \A v \in S : m <= v
MaxOf(S) == CHOOSE m \in S : \A v \in S : m >= v

\* The rescaling of array_to_img, given the minimum and the shifted maximum.
Rescale(t, lo, x_max) ==
    LET f(a, b, c) == IF x_max # 0 THEN ((At(t, a, b, c) - lo) * 255) \div x_max
                      ELSE (At(t, a, b, c) - lo) * 255
    IN Tensor3(t.shape, f)

\* tf.keras.utils.array_to_img(x) with its default scale=True: the values
\* are shifted by their minimum, divided by their maximum unless that is 0,
\* multiplied by 255 and stored as 8-bit pixels.
array_to_img(t) ==
    Rescale(t, MinOf(Values(t)), MaxOf(Values(t)) - MinOf(Values(t)))

\* Lines 88-98.
transform(image) == Normalise(PermuteToCHW(Resizing(image)))

\* Lines 102-110.
reverse_transform(data, rounding) ==
    array_to_img(CastUint8(PermuteToHWC(Denormalise(data)), rounding))

\* The images of the model: two-tone chequerboards of pixel values a and b
\* (one flat colour when a = b) in a few sizes and channel counts.
ImgShapes == {<<2, 2, 1>>, <<3, 2, 3>>, <<2, 3, 1>>, <<100, 100, 3>>}
PixelVals == {0, 128, 255}
Chequer(shape, a, b) ==
    LET f(h, w, c) == IF (h + w + c) % 2 = 0 THEN a ELSE b
    IN Tensor3(shape, f)

\* img.source names the image handed to transform; img.data is the tensor
\* the transforms have made of it so far.
InitImg ==
    /\ IdleBuild
    /\ IdleSched
    /\ IdleDiff
    /\ IdleConv
    /\ IdleTemb
    /\ \E shape \in ImgShapes : \E a \in PixelVals : \E b \in PixelVals :
         img = [stage |-> "raw", source |-> [shape |-> shape, a |-> a, b |-> b],
                data |-> <<>>]

Transform ==
    /\ img.stage = "raw"
    /\ img' = [img EXCEPT
                 !.stage = "transformed",
                 !.data = transform(Chequer(img.source.shape, img.source.a,
                                            img.source.b))]
    /\ UNCHANGED notImgVars

ReverseTransform ==
    /\ img.stage = "transformed"
    /\ \E rounding \in FloatRoundings :
         img' = [img EXCEPT !.stage = "restored",
                            !.data = reverse_transform(img.data, rounding)]
    /\ UNCHANGED notImgVars

NextImg ==
    \/ Transform
    \/ ReverseTransform

SpecImg == InitImg /\ [][NextImg]_vars

\* C6: transform followed by reverse_transform takes the 100x100x3 image
\* whose pixels are all 128 to an image whose every pixel is within 2 of 128.
C6_RoundTripWithinTwo ==
    (/\ img.stage = "restored"
     /\ img.source = [shape |-> <<100, 100, 3>>, a |-> 128, b |-> 128])
    => \A v \in Values(img.data) : v >= 126 /\ v <= 130

----------------------------------------------------------------------------
(***************************************************************************)
(* kernel_init and the convolution of the end block.  A scale is a decimal *)
(* [m |-> mantissa, e |-> exponent], m * 10^e with m in 0..9 (m = 0 is     *)
(* zero).  VarianceScaling(scale, "fan_avg", "uniform") draws each weight  *)
(* uniformly from [-limit, limit], limit^2 = 3 * scale / fan_avg; a weight *)
(* is modelled by the integer k of k / WeightSteps * limit, and an output  *)
(* value by the integer d of d / WeightSteps * limit.                      *)
(***************************************************************************)
Dec(m, e) == [m |-> m, e |-> e]
DecLess(a, b) ==
    IF a.m = 0 THEN b.m > 0
    ELSE IF b.m = 0 THEN FALSE
    ELSE a.e < b.e \/ (a.e = b.e /\ a.m < b.m)
DecMax(a, b) == IF DecLess(a, b) THEN b ELSE a

\* kernel_init without the max of line 177.
kernel_init_NoFloor(scale) ==
    [scale |-> scale, mode |-> "fan_avg", distribution |-> "uniform"]

\* Lines 176-180.
kernel_init(scale) ==
    [scale |-> DecMax(scale, Dec(1, -10)),
     mode |-> "fan_avg", distribution |-> "uniform"]

\* limit^2 = 3 * scale / ((fan_in + fan_out) / 2), as scale's decimal times
\* num / den.
LimitSq(init, fan_in, fan_out) ==
    [scale |-> init.scale, num |-> 6, den |-> fan_in + fan_out]

\* The weights an initializer can give a kernel of n taps.
Kernels(n) == [1..n -> -WeightSteps..WeightSteps]

\* One output value of a convolution with a zero bias: the sum over the
\* taps of weight times input feature.
RECURSIVE Dot(_, _)
Dot(kernel, h) ==
    IF kernel = <<>> THEN 0
    ELSE kernel[1] * h[1] + Dot(Tail(kernel), Tail(h))

\* The scales the source passes to kernel_init: 0.0 and 1.0.
ScaleArgs == {Dec(0, 0), Dec(1, 0)}
FeatureVals == {-1, 0, 1}
KernelArea == 3 * 3

InitConv ==
    /\ IdleBuild
    /\ IdleSched
    /\ IdleDiff
    /\ IdleImg
    /\ IdleTemb
    /\ \E s \in ScaleArgs : conv = [stage |-> "new", scale_arg |-> s]

\* Line 376: layers.Conv2D(3, (3, 3), padding="same",
\* kernel_initializer=kernel_init(scale)) built on first_conv_channels input
\* channels; its kernel is drawn by the initializer, its bias is zeros.
BuildConv ==
    /\ conv.stage = "new"
    /\ \E n \in 1..MaxTaps : \E kernel \in Kernels(n) :
         conv' = [stage |-> "built",
                  scale_arg |-> conv.scale_arg,
                  init |-> kernel_init(conv.scale_arg),
                  limit_sq |-> LimitSq(kernel_init(conv.scale_arg),
                                       KernelArea * first_conv_channels,
                                       KernelArea * HeadChannels),
                  kernel |-> kernel,
                  bias |-> 0]
    /\ UNCHANGED notConvVars

\* The layer applied: one output value from the features under the kernel.
CallConv ==
    /\ conv.stage = "built"
    /\ \E h \in [1..Len(conv.kernel) -> FeatureVals] :
         conv' = [stage |-> "called",
                  scale_arg |-> conv.scale_arg,
                  init |-> conv.init,
                  limit_sq |-> conv.limit_sq,
                  kernel |-> conv.kernel,
                  bias |-> conv.bias,
                  input |-> h,
                  output |-> Dot(conv.kernel, h) + conv.bias]
    /\ UNCHANGED notConvVars

NextConv ==
    \/ BuildConv
    \/ CallConv

SpecConv == InitConv /\ [][NextConv]_vars

Abs(v) == IF v < 0 THEN -v ELSE v
RECURSIVE SumAbs(_)
SumAbs(h) == IF h = <<>> THEN 0 ELSE Abs(h[1]) + SumAbs(Tail(h))

\* The number a weight or output integer d stands for is zero.
IsZeroValue(c, d) == c.init.scale.m = 0 \/ d = 0

----------------------------------------------------------------------------
(***************************************************************************)
(* TimeEmbedding.  A frequency exp(-i * log(10000) / (half_dim - 1)) is    *)
(* the term [i |-> i, over |-> half_dim - 1]; timestep times frequency is  *)
(* the term [t |-> t, freq |-> f], which is 0 exactly when t = 0; sin and  *)
(* cos are known at 0 and are terms elsewhere.                             *)
(***************************************************************************)
Const(v) == [const |-> v]
Sin(a) == IF a.t = 0 THEN Const(0) ELSE [sin |-> a]
Cos(a) == IF a.t = 0 THEN Const(1) ELSE [cos |-> a]

\* half_dim without the halving.
half_dim_Whole(dim) == dim

\* Line 227.
half_dim(dim) == dim \div 2

\* Lines 224-229: the frequencies, or the ZeroDivisionError of line 228.
TimeEmbeddingInit(dim) ==
    IF half_dim(dim) - 1 = 0
    THEN [stage |-> "error", dim |-> dim, err |-> "ZeroDivisionError"]
    ELSE [stage |-> "built", dim |-> dim,
          emb |-> [k \in 1..half_dim(dim) |->
                     [i |-> k - 1, over |-> half_dim(dim) - 1]]]

\* Lines 231-235.
TimeEmbeddingCall(emb, inputs) ==
    [b \in DOMAIN inputs |->
        [k \in DOMAIN emb |-> Sin([t |-> inputs[b], freq |-> emb[k]])]
        \o [k \in DOMAIN emb |-> Cos([t |-> inputs[b], freq |-> emb[k]])]]

InitTemb ==
    /\ IdleBuild
    /\ IdleSched
    /\ IdleDiff
    /\ IdleImg
    /\ IdleConv
    /\ \E dim \in 0..MaxDim : temb = [stage |-> "new", dim |-> dim]

Construct ==
    /\ temb.stage = "new"
    /\ temb' = TimeEmbeddingInit(temb.dim)
    /\ UNCHANGED notTembVars

CallEmbedding ==
    /\ temb.stage = "built"
    /\ \E b \in 1..MaxBatch : \E inputs \in [1..b -> 0..MaxTime] :
         temb' = [stage |-> "called", dim |-> temb.dim, emb |-> temb.emb,
                  inputs |-> inputs,
                  ret |-> TimeEmbeddingCall(temb.emb, inputs)]
    /\ UNCHANGED notTembVars

NextTemb ==
    \/ Construct
    \/ CallEmbedding

SpecTemb == InitTemb /\ [][NextTemb]_vars

EvenDim(d) == d % 2 = 0

\* What the claim says of a built or called layer of dimension dim: each
\* timestep of the batch is mapped to a vector of length dim, and the
\* vector of timestep 0 is dim / 2 zeros followed by dim / 2 ones.
EmbedsToDim ==
    temb.stage = "called" =>
        \A b \in DOMAIN temb.inputs :
            /\ Len(temb.ret[b]) = temb.dim
            /\ temb.inputs[b] = 0 =>
                 \A k \in 1..temb.dim :
                     temb.ret[b][k] = IF 2 * k <= temb.dim THEN Const(0)
                                                           ELSE Const(1)

\* C10 as stated: TimeEmbedding(dim=D) can be constructed for every even
\* D >= 2, and maps each timestep to a vector of length D that for t = 0 is
\* D / 2 zeros followed by D / 2 ones.
C10_EveryEvenDim ==
    (EvenDim(temb.dim) /\ temb.dim >= 2 /\ temb.stage # "new") =>
        /\ temb.stage # "error"
        /\ EmbedsToDim

\* C10 amended: that holds for every even D >= 4; the construction of
\* TimeEmbedding(dim=2) raises ZeroDivisionError.
C10_EvenDimFromFour ==
    /\ (EvenDim(temb.dim) /\ temb.dim >= 4 /\ temb.stage # "new") =>
          /\ temb.stage # "error"
          /\ EmbedsToDim
    /\ (temb.dim = 2 /\ temb.stage # "new") =>
          (temb.stage = "error" /\ temb.err = "ZeroDivisionError")

\* A layer of an even dimension of 4 or more called on a batch holding
\* timestep 0 and another timestep.
C10_Witness ==
    /\ temb.stage = "called"
    /\ EvenDim(temb.dim)
    /\ temb.dim >= 4
    /\ Len(temb.inputs) = 2
    /\ temb.inputs[1] = 0
    /\ temb.inputs[2] # 0

====
